---- MODULE Spec2Model ----
(***************************************************************************)
(* A model of import_zip.py: the layout parser (extract_table_schemas,     *)
(* extract_schema, make_schema_io), the type mapper (get_field_type), the  *)
(* table materializer (ensure_table_exists) and the load orchestrator      *)
(* (load_table, main).                                                     *)
(*                                                                         *)
(* Text is modelled as sequences of one-character strings, so that         *)
(* lower(), startswith(), == and sorted() are computed character by        *)
(* character as Python computes them.                                      *)
(***************************************************************************)
EXTENDS Integers, Sequences, FiniteSets, TLC

VARIABLES
    \* ---- type mapper (get_field_type) ----
    field_type_text,   \* the argument of get_field_type
    column_type,       \* what the call returned or raised
    \* ---- layout parser (extract_table_schemas) ----
    readme,            \* README.TXT, a sequence of lines
    schemas,           \* the dict extract_table_schemas returns
    \* ---- the run (main / load_table / ensure_table_exists) ----
    namelist,          \* input_zip.namelist()
    pc,                \* position of the call or of the run
    table_schemas,     \* main's table_schemas
    table_names,       \* main's sorted(table_schemas.keys())
    ti,                \* index of the table being loaded
    data_file_names,   \* load_table's tuple of matching member names
    fi,                \* index of the data file being loaded
    data_csv,          \* rows of the temporary CSV written by fixed2csv
    without_asterisks, \* rows of the second temporary CSV
    db,                \* the database: table name -> rows inserted
    create_attempts,   \* table name -> number of Table()/create_all() calls
    detected,          \* table name -> number of "already exists" returns
    log,               \* history of the load steps performed
    error              \* the exception that ended the run, or "none"

vars == <<field_type_text, column_type, readme, schemas, namelist, pc,
          table_schemas, table_names, ti, data_file_names, fi, data_csv,
          without_asterisks, db, create_attempts, detected, log, error>>

typeVars == <<field_type_text, column_type>>
layoutVars == <<readme, schemas>>
\* the variables of the run other than pc and error
loadVars == <<namelist, table_schemas, table_names, ti, data_file_names,
              fi, data_csv, without_asterisks, db, create_attempts, detected,
              log>>

-----------------------------------------------------------------------------
(* Characters and strings *)

\* The characters used, in code point order (Python compares str by code point).
CharOrder ==
    << ".", "0", "1", "2", "3", "4", "5", "6", "7", "8", "9", "A",
       "B", "C", "D", "E", "F", "G", "H", "I", "J", "K", "L", "M",
       "N", "O", "P", "Q", "R", "S", "T", "U", "V", "W", "X", "Y",
       "Z", "_", "a", "b", "c", "d", "e", "f", "g", "h", "i", "j",
       "k", "l", "m", "n", "o", "p", "q", "r", "s", "t", "u", "v",
       "w", "x", "y", "z" >>

\* ord()
OrdTable ==
    [c \in {CharOrder[i] : i \in 1..Len(CharOrder)} |->
        CHOOSE i \in 1..Len(CharOrder) : CharOrder[i] = c]
Ord(c) == OrdTable[c]

UpperChars ==
    << "A", "B", "C", "D", "E", "F", "G", "H", "I", "J", "K", "L",
       "M", "N", "O", "P", "Q", "R", "S", "T", "U", "V", "W", "X",
       "Y", "Z" >>
LowerChars ==
    << "a", "b", "c", "d", "e", "f", "g", "h", "i", "j", "k", "l",
       "m", "n", "o", "p", "q", "r", "s", "t", "u", "v", "w", "x",
       "y", "z" >>

\* str.lower() on one character
LowerTable ==
    [c \in {CharOrder[i] : i \in 1..Len(CharOrder)} |->
        IF \E i \in 1..Len(UpperChars) : UpperChars[i] = c
        THEN LowerChars[CHOOSE i \in 1..Len(UpperChars) : UpperChars[i] = c]
        ELSE c]
LowerChar(c) == LowerTable[c]

\* str.lower()
lower(s) == [i \in 1..Len(s) |-> LowerChar(s[i])]

\* str.startswith(prefix)
startswith(s, prefix) ==
    /\ Len(prefix) <= Len(s)
    /\ \A i \in 1..Len(prefix) : s[i] = prefix[i]

\* Python's < on str: the first differing character decides, a proper
\* prefix is smaller.
StrLess(a, b) ==
    \E k \in 1..(Len(b)) :
        /\ \A i \in 1..(k - 1) : i <= Len(a) /\ a[i] = b[i]
        /\ \/ Len(a) = k - 1
           \/ Len(a) >= k /\ Ord(a[k]) < Ord(b[k])

\* A variant of sorted: descending order (sorted(..., reverse=True)).
RECURSIVE sorted_reversed(_)
sorted_reversed(S) ==
    IF S = {} THEN << >>
    ELSE LET m == CHOOSE x \in S : \A y \in S \ {x} : StrLess(y, x)
         IN  << m >> \o sorted_reversed(S \ {m})

\* sorted() of a set of strings
RECURSIVE sorted(_)
sorted(S) ==
    IF S = {} THEN << >>
    ELSE LET m == CHOOSE x \in S : \A y \in S \ {x} : StrLess(x, y)
         IN  << m >> \o sorted(S \ {m})

\* tuple(filter(p, seq)) is written with SelectSeq where it is used.

-----------------------------------------------------------------------------
(* Type mapper: get_field_type, lines 94-126 *)

\* A field type text, as the regular expression of lines 95-96 splits it:
\* the type component (everything before the first parenthesis) and the
\* args group split at commas (line 106).  args = << >> stands for a text
\* without a parenthesised part (group('args') is None).  A token is an
\* integer literal, or some text int() rejects.
IntTok(n) == [int |-> TRUE, v |-> n]
TxtTok == [int |-> FALSE, v |-> 0]

\* bounds of the inputs
MaxArgValue == 11
MaxArgs == 3

TypeNames == {"VARCHAR", "VARCHAR2", "NUMBER", "DATE", "CLOB"}
Tokens == {IntTok(n) : n \in 0..MaxArgValue} \cup {TxtTok}
ArgLists == UNION {[1..n -> Tokens] : n \in 0..MaxArgs}
FieldTypeTexts == [type : TypeNames, args : ArgLists]

\* results: a sqlalchemy type, or the exception raised
String(n) == [tag |-> "String", a |-> n, b |-> 0]
Integer == [tag |-> "Integer", a |-> 0, b |-> 0]
BigInteger == [tag |-> "BigInteger", a |-> 0, b |-> 0]
Numeric(p, s) == [tag |-> "Numeric", a |-> p, b |-> s]
Date == [tag |-> "Date", a |-> 0, b |-> 0]
Raises(e) == [tag |-> e, a |-> 0, b |-> 0]
Exceptions == {"NotImplementedError", "TypeError", "ValueError"}

\* int(group('args')) for VARCHAR/VARCHAR2 (line 100): the whole args text
\* is converted, so None is a TypeError and anything but one integer
\* literal is a ValueError.
varchar_type(args) ==
    IF args = << >> THEN Raises("TypeError")
    ELSE IF Len(args) = 1 /\ args[1].int THEN String(args[1].v)
    ELSE Raises("ValueError")

\* lines 103-120
number_type(args) ==
    IF args = << >> THEN BigInteger                  \* except TypeError
    ELSE IF \E i \in 1..Len(args) : ~args[i].int
         THEN Raises("ValueError")                   \* int() of a token
    ELSE IF Len(args) = 1
         THEN (IF args[1].v < 10 THEN Integer ELSE BigInteger)
    ELSE IF Len(args) = 2 THEN Numeric(args[1].v, args[2].v)
    ELSE Raises("NotImplementedError")

\* A variant of get_field_type: an unknown type name falls back to a
\* string column instead of raising.
get_field_type_lenient(text) ==
    IF text.type \in {"VARCHAR", "VARCHAR2"} THEN varchar_type(text.args)
    ELSE IF text.type = "NUMBER" THEN number_type(text.args)
    ELSE IF text.type = "DATE" THEN Date
    ELSE String(0)

\* A variant of get_field_type: length <= 10 in place of length < 10.
get_field_type_le(text) ==
    IF text.type \in {"VARCHAR", "VARCHAR2"} THEN varchar_type(text.args)
    ELSE IF text.type = "NUMBER"
         THEN (IF Len(text.args) = 1 /\ text.args[1].int
               THEN (IF text.args[1].v <= 10 THEN Integer ELSE BigInteger)
               ELSE number_type(text.args))
    ELSE IF text.type = "DATE" THEN Date
    ELSE Raises("NotImplementedError")

get_field_type(text) ==
    IF text.type \in {"VARCHAR", "VARCHAR2"} THEN varchar_type(text.args)
    ELSE IF text.type = "NUMBER" THEN number_type(text.args)
    ELSE IF text.type = "DATE" THEN Date
    ELSE Raises("NotImplementedError")

-----------------------------------------------------------------------------
(* Layout parser: extract_table_schemas, extract_schema, make_schema_io,   *)
(* lines 28-91                                                             *)

\* README.TXT is a sequence of lines; the offset of a line is its index.
\* A line is
\*   a header  "<name> - description",
\*   a field   "<name><gap blanks>[NOT NULL <blanks>]<type>  (<start>:<end>)",
\*             where gap is the number of blanks after the name, or
\*   text      that neither regular expression matches and that holds no
\*             " - " (so a table name's pattern can only match a header).
NoType == [type |-> "DATE", args |-> << >>]
HeaderLine(n) ==
    [kind |-> "header", name |-> n, notnull |-> FALSE, gap |-> 1,
     type |-> NoType, start |-> 0, end |-> 0]
FieldLine(n, nn, g, t, s, e) ==
    [kind |-> "field", name |-> n, notnull |-> nn, gap |-> g,
     type |-> t, start |-> s, end |-> e]
TextLine ==
    [kind |-> "text", name |-> << >>, notnull |-> FALSE, gap |-> 1,
     type |-> NoType, start |-> 0, end |-> 0]

\* re.findall(r'^([A-Z][^ ]+) - ', readme, re.MULTILINE), line 68
find_table_names(doc) ==
    LET hs == SelectSeq(doc, LAMBDA l : l.kind = "header")
    IN  [i \in 1..Len(hs) |-> hs[i].name]

\* Whether the regular expression built from table_name (line 72: the name
\* is pasted into the pattern unescaped, so a "." in it matches any
\* character) matches the header name at the start of a line.
pattern_matches(table_name, header_name) ==
    /\ Len(table_name) = Len(header_name)
    /\ \A i \in 1..Len(table_name) :
          table_name[i] = "." \/ table_name[i] = header_name[i]

\* get_table_start, lines 70-73: re.search returns the FIRST match
get_table_start(doc, table_name) ==
    LET hits == {i \in 1..Len(doc) :
                    /\ doc[i].kind = "header"
                    /\ pattern_matches(table_name, doc[i].name)}
    IN  << table_name, CHOOSE i \in hits : \A j \in hits : i <= j >>

\* line 74
get_table_starts(doc) ==
    LET names == find_table_names(doc)
    IN  [i \in 1..Len(names) |-> get_table_start(doc, names[i])]

\* A table end of None (line 80) is written as this offset, past any line.
EndOfDocument(doc) == Len(doc) + 1

\* get_table_end, lines 77-83; i is the 1-based position in table_starts
get_table_end(doc, i, info) ==
    LET names == find_table_names(doc)
        table_starts == get_table_starts(doc)
        last_table_name == names[Len(names)]
    IN  IF info[1] = last_table_name
        THEN << info[1], info[2], EndOfDocument(doc) >>
        ELSE << info[1], info[2], table_starts[i + 1][2] >>

\* line 84
get_table_info(doc) ==
    LET table_starts == get_table_starts(doc)
    IN  [i \in 1..Len(table_starts) |-> get_table_end(doc, i, table_starts[i])]

\* readme[table_start:table_end], line 87: empty when the end is not after
\* the start
fragment_of(doc, table_start, table_end) ==
    SubSeq(doc, table_start, table_end - 1)

\* The regular expression of lines 54-56 on one line: after the field name
\* it asks for \s+, an optional NOT NULL, and \s+ again, so a line without
\* NOT NULL needs two blanks between the name and the type.
field_spec_matches(l) ==
    /\ l.kind = "field"
    /\ l.notnull \/ l.gap >= 2

\* make_row, lines 29-37
make_row(l) ==
    [column |-> l.name, start |-> l.start, length |-> l.end - l.start + 1,
     field_type |-> l.type]

\* extract_schema with make_schema_io, lines 28-59: the rows of the CSV
\* (after its header row), in match order
extract_schema(readme_fragment) ==
    LET specs == SelectSeq(readme_fragment, field_spec_matches)
    IN  [i \in 1..Len(specs) |-> make_row(specs[i])]

\* The loop of lines 86-89: a later assignment to the same key replaces
\* the earlier one.
RECURSIVE fill_schemas(_, _, _, _)
fill_schemas(doc, table_info, i, acc) ==
    IF i > Len(table_info) THEN acc
    ELSE LET name == table_info[i][1]
             schema == extract_schema(
                           fragment_of(doc, table_info[i][2], table_info[i][3]))
             others == DOMAIN acc \ {name}
         IN  fill_schemas(doc, table_info, i + 1,
                 [n \in others \cup {name} |->
                     IF n = name THEN schema ELSE acc[n]])

\* extract_table_schemas, lines 62-91, for a document with a header
\* (without one, table_names[-1] on line 75 raises IndexError)
extract_table_schemas(doc) ==
    fill_schemas(doc, get_table_info(doc), 1, << >>)

has_headers(doc) == find_table_names(doc) # << >>

-----------------------------------------------------------------------------
(* Values of the variables a specification does not use *)

NoResult == [tag |-> "none", a |-> 0, b |-> 0]

IdleType ==
    /\ field_type_text = NoType
    /\ column_type = NoResult

IdleLayout ==
    /\ readme = << >>
    /\ schemas = << >>

IdleRun ==
    /\ namelist = << >>
    /\ table_schemas = << >>
    /\ table_names = << >>
    /\ ti = 0
    /\ data_file_names = << >>
    /\ fi = 0
    /\ data_csv = << >>
    /\ without_asterisks = << >>
    /\ db = << >>
    /\ create_attempts = << >>
    /\ detected = << >>
    /\ log = << >>

-----------------------------------------------------------------------------
(* SpecType: one call of get_field_type on any field type text *)

InitType ==
    /\ field_type_text \in FieldTypeTexts
    /\ column_type = NoResult
    /\ pc = "get_field_type"
    /\ error = "none"
    /\ IdleLayout
    /\ IdleRun

\* the call returns a column type
GetFieldType ==
    /\ pc = "get_field_type"
    /\ get_field_type(field_type_text).tag \notin Exceptions
    /\ column_type' = get_field_type(field_type_text)
    /\ pc' = "returned"
    /\ UNCHANGED << field_type_text, error, layoutVars, loadVars >>

\* the call raises
GetFieldTypeRaises ==
    /\ pc = "get_field_type"
    /\ get_field_type(field_type_text).tag \in Exceptions
    /\ error' = get_field_type(field_type_text).tag
    /\ pc' = "raised"
    /\ UNCHANGED << field_type_text, column_type, layoutVars, loadVars >>

NextType == GetFieldType \/ GetFieldTypeRaises

SpecType == InitType /\ [][NextType]_vars

-----------------------------------------------------------------------------
(* SpecLayout: one call of extract_table_schemas on any layout document *)

\* bound of the documents: their number of lines
MaxLines == 4

AX == << "A", "X" >>
ADot == << "A", "." >>
CD == << "C", "D" >>
F1 == << "F", "1" >>
F2 == << "F", "2" >>
Varchar2_20 == [type |-> "VARCHAR2", args |-> << IntTok(2) >>]
Number_3 == [type |-> "NUMBER", args |-> << IntTok(3) >>]

LayoutLines ==
    {HeaderLine(n) : n \in {AX, ADot, CD}}
    \cup {FieldLine(F1, nn, 2, Varchar2_20, 1, 2) : nn \in BOOLEAN}
    \cup {FieldLine(F2, nn, g, Number_3, 3, 5) : nn \in BOOLEAN, g \in {1, 2}}
    \cup {TextLine}

LayoutDocuments == UNION {[1..n -> LayoutLines] : n \in 0..MaxLines}

InitLayout ==
    /\ readme \in LayoutDocuments
    /\ schemas = << >>
    /\ pc = "extract_table_schemas"
    /\ error = "none"
    /\ IdleType
    /\ IdleRun

ExtractTableSchemas ==
    /\ pc = "extract_table_schemas"
    /\ has_headers(readme)
    /\ schemas' = extract_table_schemas(readme)
    /\ pc' = "returned"
    /\ UNCHANGED << readme, error, typeVars, loadVars >>

\* table_names[-1] of an empty list, line 75
ExtractTableSchemasNoHeader ==
    /\ pc = "extract_table_schemas"
    /\ ~has_headers(readme)
    /\ error' = "IndexError"
    /\ pc' = "raised"
    /\ UNCHANGED << readme, schemas, typeVars, loadVars >>

NextLayout == ExtractTableSchemas \/ ExtractTableSchemasNoHeader

SpecLayout == InitLayout /\ [][NextLayout]_vars

-----------------------------------------------------------------------------
(* The run: main, load_table, ensure_table_exists, lines 129-226 *)

\* bounds of the archive: tables in README.TXT, data members
MaxTables == 2
MaxMembers == 2

PERSON == << "P", "E", "R", "S", "O", "N" >>
PERSON_ADDRESS ==
    << "P", "E", "R", "S", "O", "N", "_", "A", "D", "D", "R", "E", "S", "S" >>
CASE_ == << "C", "A", "S", "E" >>
RunTableNames == {PERSON, PERSON_ADDRESS, CASE_}

person_txt == << "p", "e", "r", "s", "o", "n", ".", "t", "x", "t" >>
person_2023_txt ==
    << "p", "e", "r", "s", "o", "n", "_", "2", "0", "2", "3", ".", "t", "x", "t" >>
personnel_txt ==
    << "p", "e", "r", "s", "o", "n", "n", "e", "l", ".", "t", "x", "t" >>
PERSON_TXT == << "P", "E", "R", "S", "O", "N", ".", "T", "X", "T" >>
person_address_txt ==
    << "p", "e", "r", "s", "o", "n", "_", "a", "d", "d", "r", "e", "s", "s",
       ".", "t", "x", "t" >>
README_TXT == << "R", "E", "A", "D", "M", "E", ".", "T", "X", "T" >>
DataMembers ==
    {person_txt, person_2023_txt, personnel_txt, PERSON_TXT, person_address_txt}

Clob == [type |-> "CLOB", args |-> << >>]
Varchar2_1 == [type |-> "VARCHAR2", args |-> << IntTok(1) >>]

\* One table of a layout document: its header and one field declaration.
TableBlock(n, t) == << HeaderLine(n), FieldLine(F1, TRUE, 1, t, 1, 1) >>
TableBlocks == {TableBlock(n, t) : n \in RunTableNames, t \in {Varchar2_1, Clob}}

RECURSIVE Flatten(_)
Flatten(ss) == IF ss = << >> THEN << >> ELSE Head(ss) \o Flatten(Tail(ss))

RunDocuments ==
    {Flatten(bs) : bs \in UNION {[1..n -> TableBlocks] : n \in 0..MaxTables}}

\* The member lists: README.TXT, then up to MaxMembers distinct data members.
RunNamelists ==
    {<< README_TXT >> \o ms :
        ms \in {m \in UNION {[1..n -> DataMembers] : n \in 0..MaxMembers} :
                   \A i, j \in 1..Len(m) : m[i] = m[j] => i = j}}

\* The text of a data member: every member holds these two records.
MemberLines == << << "*", "A" >>, << "J", "B" >> >>

Txt == << ".", "t", "x", "t" >>
Underscore == << "_" >>

\* A variant of file_is_for_table: the member name is lowercased first.
file_is_for_table_lowered(name, file_name) ==
    IF lower(file_name) = lower(name) \o Txt THEN TRUE
    ELSE startswith(lower(file_name), lower(name) \o Underscore)

\* load_table.file_is_for_table, lines 158-161
file_is_for_table(name, file_name) ==
    IF file_name = lower(name) \o Txt THEN TRUE
    ELSE startswith(file_name, lower(name) \o Underscore)

\* tuple(filter(file_is_for_table, input_zip.namelist())), line 162
filter_data_file_names(name, names) ==
    SelectSeq(names, LAMBDA f : file_is_for_table(name, f))

\* MetaData(connection).tables, lines 135-136: a MetaData made from a
\* connection alone is not reflected from the database, so it names no
\* table (the FIXME of lines 132-134).
MetaDataTables(database) == {}

\* build_column over the schema rows, lines 143-146: the column types
build_columns(table_schema) ==
    [i \in 1..Len(table_schema) |-> get_field_type(table_schema[i].field_type)]

\* The first exception build_columns raises, if any.
first_exception(columns) ==
    LET bad == {i \in 1..Len(columns) : columns[i].tag \in Exceptions}
    IN  IF bad = {} THEN "none"
        ELSE columns[CHOOSE i \in bad : \A j \in bad : i <= j].tag

\* metadata.create_all(), line 148: CREATE TABLE is issued only for a
\* table the database does not hold (checkfirst).
create_all(database, table_name) ==
    IF table_name \in DOMAIN database THEN database
    ELSE [n \in DOMAIN database \cup {table_name} |->
             IF n = table_name THEN << >> ELSE database[n]]

\* fixed2csv(wrapped_raw_file, schema, output=data_csv_file), line 175: a
\* row of column names, then one row per line with the characters
\* start..start+length-1 of each column (1-based start).
fixed2csv(lines, table_schema) ==
    << [k \in 1..Len(table_schema) |-> table_schema[k].column] >>
    \o [r \in 1..Len(lines) |->
           [k \in 1..Len(table_schema) |->
               SubSeq(lines[r], table_schema[k].start,
                      IF table_schema[k].start + table_schema[k].length - 1 <= Len(lines[r])
                      THEN table_schema[k].start + table_schema[k].length - 1
                      ELSE Len(lines[r]))]]

\* lines 185-187: a cell that is exactly "*" becomes empty
remove_asterisks(rows) ==
    [r \in 1..Len(rows) |->
        [k \in 1..Len(rows[r]) |->
            IF rows[r][k] = << "*" >> THEN << >> ELSE rows[r][k]]]

\* csv_table.to_sql(..., insert=True), lines 192-196: the rows after the
\* header row are appended to the table
to_sql(database, table_name, rows) ==
    [database EXCEPT ![table_name] = @ \o Tail(rows)]

LogEntry(op, table, file) == [op |-> op, table |-> table, file |-> file]

\* A variant of propagate: the exception is caught inside the loop of
\* line 166, which goes on.
propagate_swallow(e) ==
    /\ error' = e
    /\ pc' = "for_file"
    /\ db' = db

\* An exception nothing catches: it leaves main, and the run ends.
\* Nothing is rolled back.
propagate(e) ==
    /\ error' = e
    /\ pc' = "aborted"
    /\ db' = db

InitRun ==
    /\ readme \in RunDocuments
    /\ namelist \in RunNamelists
    /\ pc = "main"
    /\ error = "none"
    /\ schemas = << >>
    /\ table_schemas = << >>
    /\ table_names = << >>
    /\ ti = 0
    /\ data_file_names = << >>
    /\ fi = 0
    /\ data_csv = << >>
    /\ without_asterisks = << >>
    /\ db = << >>
    /\ create_attempts = << >>
    /\ detected = << >>
    /\ log = << >>
    /\ IdleType

\* main, lines 212-217
ExtractAndSort ==
    /\ pc = "main"
    /\ has_headers(readme)
    /\ table_schemas' = extract_table_schemas(readme)
    /\ table_names' = sorted(DOMAIN table_schemas')
    /\ create_attempts' = [n \in DOMAIN table_schemas' |-> 0]
    /\ detected' = [n \in DOMAIN table_schemas' |-> 0]
    /\ ti' = 1
    /\ pc' = "load_table"
    /\ UNCHANGED << readme, schemas, namelist, data_file_names, fi, data_csv,
                    without_asterisks, db, log, error, typeVars >>

\* main, line 212, on a README.TXT without a header (IndexError, line 75)
ExtractRaises ==
    /\ pc = "main"
    /\ ~has_headers(readme)
    /\ propagate("IndexError")
    /\ UNCHANGED << readme, schemas, namelist, table_schemas, table_names, ti,
                    data_file_names, fi, data_csv, without_asterisks,
                    create_attempts, detected, log, typeVars >>

\* load_table, lines 158-164
LoadTable ==
    /\ pc = "load_table"
    /\ data_file_names' = filter_data_file_names(table_names[ti], namelist)
    /\ fi' = 1
    /\ pc' = "for_file"
    /\ UNCHANGED << readme, schemas, namelist, table_schemas, table_names, ti,
                    data_csv, without_asterisks, db, create_attempts, detected,
                    log, error, typeVars >>

AtFile == pc = "for_file" /\ fi <= Len(data_file_names)

\* ensure_table_exists, lines 129-152, called on line 167
EnsureTable ==
    /\ AtFile
    /\ LET name == table_names[ti]
           columns == build_columns(table_schemas[name])
       IN  IF name \in MetaDataTables(db)
           THEN /\ detected' = [detected EXCEPT ![name] = @ + 1]
                /\ UNCHANGED << db, create_attempts >>
           ELSE /\ first_exception(columns) = "none"
                /\ create_attempts' = [create_attempts EXCEPT ![name] = @ + 1]
                /\ db' = create_all(db, name)
                /\ UNCHANGED detected
    /\ log' = Append(log, LogEntry("ensure", table_names[ti], data_file_names[fi]))
    /\ pc' = "convert"
    /\ UNCHANGED << readme, schemas, namelist, table_schemas, table_names, ti,
                    data_file_names, fi, data_csv, without_asterisks, error,
                    typeVars >>

\* ensure_table_exists when get_field_type raises on a column (line 144)
EnsureTableUnsupported ==
    /\ AtFile
    /\ table_names[ti] \notin MetaDataTables(db)
    /\ first_exception(build_columns(table_schemas[table_names[ti]])) # "none"
    /\ propagate(first_exception(build_columns(table_schemas[table_names[ti]])))
    /\ UNCHANGED << readme, schemas, namelist, table_schemas, table_names, ti,
                    data_file_names, fi, data_csv, without_asterisks,
                    create_attempts, detected, log, typeVars >>

\* ensure_table_exists when the database fails on create_all (line 148)
EnsureTableDatabaseError ==
    /\ AtFile
    /\ table_names[ti] \notin MetaDataTables(db)
    /\ first_exception(build_columns(table_schemas[table_names[ti]])) = "none"
    /\ create_attempts' = [create_attempts EXCEPT ![table_names[ti]] = @ + 1]
    /\ propagate("DatabaseError")
    /\ UNCHANGED << readme, schemas, namelist, table_schemas, table_names, ti,
                    data_file_names, fi, data_csv, without_asterisks,
                    detected, log, typeVars >>

\* lines 170-180
Convert ==
    /\ pc = "convert"
    /\ data_csv' = fixed2csv(MemberLines, table_schemas[table_names[ti]])
    /\ log' = Append(log, LogEntry("convert", table_names[ti], data_file_names[fi]))
    /\ pc' = "normalize"
    /\ UNCHANGED << readme, schemas, namelist, table_schemas, table_names, ti,
                    data_file_names, fi, without_asterisks, db,
                    create_attempts, detected, error, typeVars >>

\* lines 171-175 when the member cannot be opened or decoded
ConvertRaises ==
    /\ pc = "convert"
    /\ propagate("ArchiveMemberError")
    /\ UNCHANGED << readme, schemas, namelist, table_schemas, table_names, ti,
                    data_file_names, fi, data_csv, without_asterisks,
                    create_attempts, detected, log, typeVars >>

\* lines 182-189
Normalize ==
    /\ pc = "normalize"
    /\ without_asterisks' = remove_asterisks(data_csv)
    /\ data_csv' = << >>
    /\ log' = Append(log, LogEntry("normalize", table_names[ti], data_file_names[fi]))
    /\ pc' = "insert"
    /\ UNCHANGED << readme, schemas, namelist, table_schemas, table_names, ti,
                    data_file_names, fi, db, create_attempts, detected, error,
                    typeVars >>

\* lines 191-199, and the next turn of the loop of line 166
Insert ==
    /\ pc = "insert"
    /\ db' = to_sql(db, table_names[ti], without_asterisks)
    /\ without_asterisks' = << >>
    /\ log' = Append(log, LogEntry("insert", table_names[ti], data_file_names[fi]))
    /\ fi' = fi + 1
    /\ pc' = "for_file"
    /\ UNCHANGED << readme, schemas, namelist, table_schemas, table_names, ti,
                    data_file_names, data_csv, create_attempts, detected,
                    error, typeVars >>

\* lines 192-196 when the database fails
InsertRaises ==
    /\ pc = "insert"
    /\ propagate("DatabaseError")
    /\ UNCHANGED << readme, schemas, namelist, table_schemas, table_names, ti,
                    data_file_names, fi, data_csv, without_asterisks,
                    create_attempts, detected, log, typeVars >>

\* A variant of LoadTableReturns: a table without data files is an error.
LoadTableReturns_raising ==
    /\ pc = "for_file"
    /\ fi > Len(data_file_names)
    /\ IF data_file_names = << >>
       THEN propagate("NoDataFiles") /\ ti' = ti
       ELSE /\ ti' = ti + 1
            /\ pc' = IF ti < Len(table_names) THEN "load_table" ELSE "close"
            /\ UNCHANGED << db, error >>
    /\ UNCHANGED << readme, schemas, namelist, table_schemas, table_names,
                    data_file_names, fi, data_csv, without_asterisks,
                    create_attempts, detected, log, typeVars >>

\* the loop of line 166 is over: load_table returns, and main's loop of
\* line 218 goes on to the next table, or ends
LoadTableReturns ==
    /\ pc = "for_file"
    /\ fi > Len(data_file_names)
    /\ ti' = ti + 1
    /\ pc' = IF ti < Len(table_names) THEN "load_table" ELSE "close"
    /\ UNCHANGED << readme, schemas, namelist, table_schemas, table_names,
                    data_file_names, fi, data_csv, without_asterisks, db,
                    create_attempts, detected, log, error, typeVars >>

\* lines 225-226
Close ==
    /\ pc = "close"
    /\ pc' = "done"
    /\ UNCHANGED << readme, schemas, namelist, table_schemas, table_names, ti,
                    data_file_names, fi, data_csv, without_asterisks, db,
                    create_attempts, detected, log, error, typeVars >>

Next ==
    \/ ExtractAndSort
    \/ ExtractRaises
    \/ LoadTable
    \/ EnsureTable
    \/ EnsureTableUnsupported
    \/ EnsureTableDatabaseError
    \/ Convert
    \/ ConvertRaises
    \/ Normalize
    \/ Insert
    \/ InsertRaises
    \/ LoadTableReturns
    \/ Close

Spec == InitRun /\ [][Next]_vars

-----------------------------------------------------------------------------
(* Claims about get_field_type, checked under SpecType *)

AllInt(args) == \A i \in 1..Len(args) : args[i].int

\* The type/argument combinations the rule table covers.
Covered(text) ==
    \/ text.type \in {"VARCHAR", "VARCHAR2"} /\ Len(text.args) = 1 /\ AllInt(text.args)
    \/ text.type = "NUMBER" /\ Len(text.args) <= 2 /\ AllInt(text.args)
    \/ text.type = "DATE" /\ text.args = << >>

\* The rule table of the type mapper, for a covered text.
RuleTable(text) ==
    CASE text.type \in {"VARCHAR", "VARCHAR2"} -> String(text.args[1].v)
      [] text.type = "NUMBER" /\ Len(text.args) = 0 -> BigInteger
      [] text.type = "NUMBER" /\ Len(text.args) = 1 ->
             IF text.args[1].v < 10 THEN Integer ELSE BigInteger
      [] text.type = "NUMBER" /\ Len(text.args) = 2 ->
             Numeric(text.args[1].v, text.args[2].v)
      [] text.type = "DATE" -> Date

\* C6 as stated: every text that is not covered fails with
\* NotImplementedError (and so returns no column type).
C6_UncoveredRaisesNotImplemented ==
    (pc # "get_field_type" /\ ~Covered(field_type_text))
        => (pc = "raised" /\ error = "NotImplementedError")

\* C6 as amended: NotImplementedError is raised exactly for a type name
\* other than VARCHAR, VARCHAR2, NUMBER and DATE, and for NUMBER with more
\* than two integer arguments; DATE returns Date whatever its arguments;
\* VARCHAR/VARCHAR2 without exactly one integer argument fails with
\* TypeError (no argument) or ValueError; NUMBER with a non-integer
\* argument fails with ValueError.
C6_NotImplementedExactly ==
    pc # "get_field_type" =>
        LET t == field_type_text IN
        /\ (pc = "raised" /\ error = "NotImplementedError")
              <=> \/ t.type \notin {"VARCHAR", "VARCHAR2", "NUMBER", "DATE"}
                  \/ t.type = "NUMBER" /\ Len(t.args) > 2 /\ AllInt(t.args)
        /\ t.type = "DATE" => (pc = "returned" /\ column_type = Date)
        /\ (t.type \in {"VARCHAR", "VARCHAR2"} /\ ~Covered(t))
              => /\ pc = "raised"
                 /\ error = (IF t.args = << >> THEN "TypeError" ELSE "ValueError")
        /\ (t.type = "NUMBER" /\ ~AllInt(t.args))
              => (pc = "raised" /\ error = "ValueError")

\* NUMBER with three integer arguments has raised NotImplementedError.
C6_Witness ==
    /\ pc = "raised"
    /\ error = "NotImplementedError"
    /\ field_type_text.type = "NUMBER"
    /\ Len(field_type_text.args) = 3

\* C7: a covered text never raises, and the type returned is the one the
\* rule table gives (NUMBER(9) is Integer, NUMBER(10) is BigInteger).
C7_RuleTable ==
    Covered(field_type_text) =>
        /\ pc # "raised"
        /\ pc = "returned" => column_type = RuleTable(field_type_text)

\* NUMBER(10) has been mapped to BigInteger.
C7_Witness ==
    /\ pc = "returned"
    /\ field_type_text = [type |-> "NUMBER", args |-> << IntTok(10) >>]
    /\ column_type = BigInteger

-----------------------------------------------------------------------------
(* Claims about extract_table_schemas, checked under SpecLayout *)

HeaderIndexes(doc) == {i \in 1..Len(doc) : doc[i].kind = "header"}

\* The offset of the header that follows line i, or the end of the document.
NextHeader(doc, i) ==
    LET later == {j \in HeaderIndexes(doc) : j > i}
    IN  IF later = {} THEN Len(doc) + 1
        ELSE CHOOSE j \in later : \A k \in later : j <= k

\* The columns declared between the header at line i and the next header:
\* one per field declaration, NOT NULL or not, in document order.
DeclaredColumns(doc, i) ==
    LET decls == SelectSeq(SubSeq(doc, i + 1, NextHeader(doc, i) - 1),
                           LAMBDA l : l.kind = "field")
    IN  [k \in 1..Len(decls) |->
            [column |-> decls[k].name, start |-> decls[k].start,
             length |-> decls[k].end - decls[k].start + 1,
             field_type |-> decls[k].type]]

HeaderNames(doc) == {doc[i].name : i \in HeaderIndexes(doc)}

DistinctHeaders(doc) ==
    \A i, j \in HeaderIndexes(doc) : doc[i].name = doc[j].name => i = j

LastOccurrence(doc, n) ==
    CHOOSE i \in HeaderIndexes(doc) :
        /\ doc[i].name = n
        /\ \A j \in HeaderIndexes(doc) : doc[j].name = n => j <= i

\* A document whose header names hold no "." and whose field declarations
\* all have NOT NULL or two blanks after the name.
PlainDocument(doc) ==
    /\ \A i \in HeaderIndexes(doc) :
          \A k \in 1..Len(doc[i].name) : doc[i].name[k] # "."
    /\ \A i \in 1..Len(doc) :
          doc[i].kind = "field" => (doc[i].notnull \/ doc[i].gap >= 2)

\* C4 as stated: with pairwise distinct header names, each table name is
\* mapped to exactly the field declarations between its header and the
\* next one, with start = START and length = END - START + 1, whether NOT
\* NULL is present or not.
C4_FragmentPerHeader ==
    (pc = "returned" /\ readme # << >> /\ DistinctHeaders(readme)) =>
        /\ DOMAIN schemas = HeaderNames(readme)
        /\ \A i \in HeaderIndexes(readme) :
              schemas[readme[i].name] = DeclaredColumns(readme, i)

\* C5 as stated: with a repeated header name, the schema stored for each
\* name is that of the fragment of its last occurrence only.  Stated for
\* plain documents, so that only the repetition can break it.
C5_LastWins ==
    (pc = "returned" /\ readme # << >> /\ ~DistinctHeaders(readme)
        /\ PlainDocument(readme)) =>
        /\ DOMAIN schemas = HeaderNames(readme)
        /\ \A n \in HeaderNames(readme) :
              schemas[n] = DeclaredColumns(readme, LastOccurrence(readme, n))

-----------------------------------------------------------------------------
(* Claims about the run, checked under Spec *)

Loading == pc \in {"for_file", "convert", "normalize", "insert"}

EntriesOf(op, n) == {i \in 1..Len(log) : log[i].op = op /\ log[i].table = n}

Selected(file_name) ==
    \E k \in 1..Len(data_file_names) : data_file_names[k] = file_name

InArchive(file_name) == \E i \in 1..Len(namelist) : namelist[i] = file_name

\* C1 as stated: a table for which ensure_table_exists has returned N >= 1
\* times was created by the first call only; the other N - 1 calls found
\* it present and attempted no creation.
C1_CreatedOnce ==
    \A n \in DOMAIN create_attempts :
        EntriesOf("ensure", n) # {} =>
            /\ create_attempts[n] = 1
            /\ detected[n] = Cardinality(EntriesOf("ensure", n)) - 1

Rank(op) ==
    CASE op = "ensure" -> 1 [] op = "convert" -> 2
      [] op = "normalize" -> 3 [] op = "insert" -> 4

FilePos(file_name) == CHOOSE i \in 1..Len(namelist) : namelist[i] = file_name

\* C2: the steps of a run come in order: ensure, convert, normalize, insert
\* for one member, then the next member of the same table in archive
\* listing order, or the first member of a table whose name is
\* lexicographically greater.  So every insert into a table follows an
\* ensure of that table.
C2_LoadOrder ==
    /\ log # << >> => log[1].op = "ensure"
    /\ \A i \in 1..(Len(log) - 1) :
          LET a == log[i]
              b == log[i + 1]
          IN  IF b.op # "ensure"
              THEN /\ b.table = a.table
                   /\ b.file = a.file
                   /\ Rank(b.op) = Rank(a.op) + 1
              ELSE /\ a.op = "insert"
                   /\ \/ StrLess(a.table, b.table)
                      \/ a.table = b.table /\ FilePos(a.file) < FilePos(b.file)
    /\ \A i \in {k \in 1..Len(log) : log[k].op = "insert"} :
          \E j \in 1..(i - 1) : log[j].op = "ensure" /\ log[j].table = log[i].table

\* Two tables listed out of order in README.TXT were loaded, PERSON first.
C2_Witness ==
    /\ pc = "done"
    /\ readme[1].name = PERSON_ADDRESS
    /\ table_names = << PERSON, PERSON_ADDRESS >>
    /\ EntriesOf("insert", PERSON) # {}
    /\ EntriesOf("insert", PERSON_ADDRESS) # {}

HasMatch(n) == \E i \in 1..Len(namelist) : file_is_for_table(n, namelist[i])

\* Every member selected for every table has been inserted into it.
AllLoaded ==
    \A n \in DOMAIN table_schemas :
        \A i \in 1..Len(namelist) :
            file_is_for_table(n, namelist[i]) =>
                \E j \in EntriesOf("insert", n) : log[j].file = namelist[i]

\* The database holds what the completed steps put there: the tables
\* ensured, each with the rows of the inserts into it.
NothingRolledBack ==
    /\ DOMAIN db = {log[i].table : i \in {j \in 1..Len(log) : log[j].op = "ensure"}}
    /\ \A n \in DOMAIN db :
          Len(db[n]) = Len(MemberLines) * Cardinality(EntriesOf("insert", n))

\* C8: a run ends done, with every table loaded, or aborted by the first
\* exception; once an exception is raised no further step is taken, and
\* the tables created and rows inserted before it stay in the database.
C8_AbortAtFirstFailure ==
    /\ [](pc = "aborted" <=> error # "none")
    /\ [](pc = "done" => AllLoaded)
    /\ []NothingRolledBack
    /\ [][error # "none" => UNCHANGED << pc, db, log, create_attempts >>]_vars

\* The run was aborted after rows had been inserted, and they are there.
C8_Witness ==
    /\ pc = "aborted"
    /\ \E n \in DOMAIN db : db[n] # << >>

\* C9: a table of the layout document that no member matches gets no load
\* step: no ensure, no creation, no type mapping failure, no insert; no
\* exception is raised while it is the current table, and the run goes on
\* to load the tables after it.
C9_NoMemberNoLoad ==
    /\ \A k \in 1..Len(table_names) :
          ~HasMatch(table_names[k]) =>
              /\ \A i \in 1..Len(log) : log[i].table # table_names[k]
              /\ create_attempts[table_names[k]] = 0
              /\ detected[table_names[k]] = 0
              /\ table_names[k] \notin DOMAIN db
              /\ ~(pc = "aborted" /\ ti = k)
              /\ (Loading /\ ti = k) => (pc = "for_file" /\ data_file_names = << >>)
    /\ pc = "done" => AllLoaded

\* CASE, with a CLOB column and no member, came before PERSON, which was
\* loaded.
C9_Witness ==
    /\ pc = "done"
    /\ table_names = << CASE_, PERSON >>
    /\ table_schemas[CASE_][1].field_type = Clob
    /\ ~HasMatch(CASE_)
    /\ PERSON \in DOMAIN db
    /\ db[PERSON] # << >>

\* C10 as stated: in a run that completes, the rows of one member are
\* inserted into one table only.
C10_OneTablePerMember ==
    pc = "done" =>
        \A i, j \in 1..Len(log) :
            (log[i].op = "insert" /\ log[j].op = "insert" /\ log[i].file = log[j].file)
                => log[i].table = log[j].table

====
